---- MODULE Spec2Model ----
(***************************************************************************)
(* Model of src/llava_music21.py (MetaTone Lab): the lyric-to-melody       *)
(* functions, the temp-file handling of the serializer and the renderer,   *)
(* the So-VITS-SVC adapter and the three Streamlit button handlers.        *)
(*                                                                         *)
(* Text is modelled as a sequence of one-character strings, so that the    *)
(* Python string operations (split, strip, upper, join) are computed       *)
(* character by character.                                                 *)
(***************************************************************************)
EXTENDS Integers, Sequences, FiniteSets, TLC

VARIABLES
    song_title,   \* st.session_state["song_title"]: None or text
    lyrics,       \* st.session_state["lyrics"]: None or text
    image_data,   \* canvas_result.image_data: None or an image
    soundfont,    \* TRUE iff a file exists at SOUNDFONT_PATH
    tempMid,      \* number of NamedTemporaryFile(suffix=".mid") files on disk
    tempWav,      \* number of NamedTemporaryFile(suffix=".wav") files on disk
    files,        \* contents of the fixed-path files the program writes/reads
    resultsDir,   \* TRUE iff <svc_repo>/results exists
    event,        \* what the most recent script run did and showed
    gen,          \* <<title, lyrics>> as the model returned them in the last
                  \* generation that completed; <<None, None>> before
    src,          \* the tokens the lyric text was assembled from (melody runs)
    notes,        \* the notes appended to the music21 stream, in order
    pc            \* position of a melody run: "ready" or "done"

vars == <<song_title, lyrics, image_data, soundfont, tempMid, tempWav, files,
          resultsDir, event, gen, src, notes, pc>>

\* Python's None where a text is expected: a one-element sequence that is no
\* text, since every character of a text is a one-character string
None == <<"None">>

-----------------------------------------------------------------------------
(* Bounds of the model *)

MaxTokens == 5     \* words, line breaks and paddings of a text in a melody run
MaxTemp  == 2      \* a script run starts only while fewer temp files are left

-----------------------------------------------------------------------------
(* Python string operations *)

NL == "\n"
TAB == "\t"
QUOTE == "\""
HYPHEN == "-"

\* str.isspace() on the characters of the model's alphabet
IsSpace(c) == c \in {" ", TAB, NL}

SetMin(S) == CHOOSE m \in S : \A k \in S : m <= k
SetMax(S) == CHOOSE m \in S : \A k \in S : m >= k

\* s.strip(chars): drop leading and trailing characters that are in cs
StripChars(s, cs) ==
    LET keep == {i \in 1..Len(s) : s[i] \notin cs}
    IN  IF keep = {} THEN <<>> ELSE SubSeq(s, SetMin(keep), SetMax(keep))

\* s.strip()
Strip(s) == StripChars(s, {" ", TAB, NL})

\* s.split(sep) with an explicit one-character separator: empty pieces are kept
RECURSIVE SplitFrom(_, _, _)
SplitFrom(s, sep, start) ==
    LET hits == {i \in start..Len(s) : s[i] = sep}
    IN  IF hits = {} THEN <<SubSeq(s, start, Len(s))>>
        ELSE <<SubSeq(s, start, SetMin(hits) - 1)>>
                 \o SplitFrom(s, sep, SetMin(hits) + 1)

SplitOn(s, sep) == SplitFrom(s, sep, 1)

\* s.split() without argument: runs of whitespace separate, no empty pieces
RECURSIVE WordsFrom(_, _)
WordsFrom(s, start) ==
    LET begins == {i \in start..Len(s) : ~IsSpace(s[i])}
    IN  IF begins = {} THEN <<>>
        ELSE LET b == SetMin(begins)
                 ends == {i \in b..Len(s) : IsSpace(s[i])}
                 e == IF ends = {} THEN Len(s) + 1 ELSE SetMin(ends)
             IN  <<SubSeq(s, b, e - 1)>> \o WordsFrom(s, e)

SplitWords(s) == WordsFrom(s, 1)

\* sep.join(parts)
RECURSIVE Join(_, _)
Join(parts, sep) ==
    IF parts = <<>> THEN <<>>
    ELSE IF Len(parts) = 1 THEN parts[1]
    ELSE parts[1] \o sep \o Join(Tail(parts), sep)

\* "".join(parts) of a sequence of sequences
RECURSIVE Flatten(_)
Flatten(parts) ==
    IF parts = <<>> THEN <<>> ELSE parts[1] \o Flatten(Tail(parts))

\* c.upper() on the characters of the model's alphabet
Upper(c) ==
    CASE c = "a" -> "A" [] c = "l" -> "L" [] c = "o" -> "O" [] c = "h" -> "H"
      [] OTHER -> c

\* [x for x in s if keep[x]] for a sequence s and a predicate given as a set
RECURSIVE Filter(_, _)
Filter(s, good) ==
    IF s = <<>> THEN <<>>
    ELSE (IF s[1] \in good THEN <<s[1]>> ELSE <<>>) \o Filter(Tail(s), good)

-----------------------------------------------------------------------------
(* format_text *)

format_text(text) ==
    LET raw == SplitOn(text, NL)
        stripped == [i \in 1..Len(raw) |-> Strip(raw[i])]
        lines == Filter(stripped, {l \in {stripped[i] : i \in 1..Len(stripped)} : l # <<>>})
        capped == [i \in 1..Len(lines) |->
                     IF lines[i] # <<>> THEN <<Upper(lines[i][1])>> \o Tail(lines[i])
                     ELSE <<>>]
    IN  Join(capped, <<NL, NL>>)

-----------------------------------------------------------------------------
(* The hyphenation dictionary pyphen.Pyphen(lang='en') as the program uses    *)
(* it: positions(word) are the places where the dictionary finds a syllable   *)
(* boundary, never within the first two or the last two characters; the       *)
(* patterns stand for the dictionary's pattern file.                          *)

Patterns == {<<"a", "l">>}

Positions(word) ==
    {p \in 2..(Len(word) - 2) : <<word[p], word[p + 1]>> \in Patterns}

\* dic.inserted(word): the word with "-" put in at every position
RECURSIVE InsertAt(_, _, _)
InsertAt(word, ps, from) ==
    LET later == {p \in ps : p > from}
    IN  IF later = {} THEN SubSeq(word, from + 1, Len(word))
        ELSE SubSeq(word, from + 1, SetMin(later)) \o <<HYPHEN>>
                 \o InsertAt(word, ps, SetMin(later))

Inserted(word) == InsertAt(word, Positions(word), 0)

-----------------------------------------------------------------------------
(* split_into_syllables, generate_melody_for_line, the score of               *)
(* generate_melody_from_lyrics                                                *)

\* the body of the loop over words: syl.split('-')
WordUnits(word) == SplitOn(Inserted(word), HYPHEN)

split_into_syllables(line) ==
    LET words == SplitWords(line)
    IN  Flatten([k \in 1..Len(words) |-> WordUnits(words[k])])

scale_notes == <<"C4", "D4", "E4", "F4", "G4", "A4", "B4">>

\* a mutant: the scale index runs from 1
generate_melody_for_line_shifted(line) ==
    LET syllables == split_into_syllables(line)
    IN  [i \in 1..Len(syllables) |->
           <<scale_notes[(i % Len(scale_notes)) + 1], 1, syllables[i]>>]

\* a note is <<pitch, quarterLength, lyric>>; quarterLength 1 stands for 1.0
generate_melody_for_line(line) ==
    LET syllables == split_into_syllables(line)
    IN  [i \in 1..Len(syllables) |->
           <<scale_notes[((i - 1) % Len(scale_notes)) + 1], 1, syllables[i]>>]

\* lines = [l for l in lyrics.split("\n") if l.strip()]
NonBlankLines(text) ==
    LET raw == SplitOn(text, NL)
    IN  Filter(raw, {l \in {raw[i] : i \in 1..Len(raw)} : Strip(l) # <<>>})

\* a mutant: the last line of the text is not processed
ScoreNotesDropLast(text) ==
    LET lines == NonBlankLines(text)
    IN  Flatten([k \in 1..(Len(lines) - 1) |-> generate_melody_for_line(lines[k])])

\* the notes appended to the stream, in order (the two nested loops)
ScoreNotes(text) ==
    LET lines == NonBlankLines(text)
    IN  Flatten([k \in 1..Len(lines) |-> generate_melody_for_line(lines[k])])

-----------------------------------------------------------------------------
(* Byte strings: what a file holds or a function returns *)

NoBytes == [fmt |-> "none"]                       \* no value / no such file
EmptyBytes == [fmt |-> "empty"]                   \* b"", a zero-length file
midiProgram == 53
Midi(ns) == [fmt |-> "midi", program |-> midiProgram, notes |-> ns]
Wav(midi) == [fmt |-> "wav", of |-> midi]         \* the score rendered with the sound bank
SilentWav(midi) == [fmt |-> "wav_silent", of |-> midi]  \* rendered without instrument samples
Flac(wav) == [fmt |-> "flac", of |-> wav]         \* the conversion of a waveform

NoExc == [type |-> "none"]

\* The fixed-path files the program reads back or lists: the adapter's input
\* raw/temp_infer.wav and the results directory's entries.  The debug copies
\* debug_midi.mid and debug_rough.wav are only ever written; a write to them
\* is recorded in what the script run wrote.
FixedPaths == {"raw_infer", "out_file", "other"}
OtherFile == [fmt |-> "flac_other"]

\* os.listdir(<svc_repo>/results)
Listing(fs) == {p \in {"out_file", "other"} : fs[p] # NoBytes}

-----------------------------------------------------------------------------
(* generate_melody_from_lyrics after the score `ns` is built: temp .mid,      *)
(* serialization, read-back, debug copy, os.remove.  `out` is how it goes:    *)
(*   "ok", "write_fail" (s.write raises), "read_fail" (open/read raises)      *)

MelodyOutcomes == {"ok", "write_fail", "read_fail"}

MelodyStage(ns, debug_save, out) ==
    [exc     |-> CASE out = "write_fail" -> [type |-> "MidiWriteError"]
                   [] out = "read_fail"  -> [type |-> "OSError", path |-> "temp_mid"]
                   [] OTHER -> NoExc,
     result  |-> IF out = "ok" THEN Midi(ns) ELSE NoBytes,
     \* os.remove(midi_path) is the last statement before return
     leakMid |-> IF out = "ok" THEN 0 ELSE 1,
     wrote   |-> {"temp_mid"} \cup
                 (IF out = "ok" /\ debug_save THEN {"debug_midi"} ELSE {})]

-----------------------------------------------------------------------------
(* midi_to_wav: temp .mid, temp .wav, FluidSynth(sound_font).midi_to_audio,   *)
(* read-back, os.remove of both.  `out` is how the call goes:                 *)
(*   "ok", "render_fail" (midi_to_audio raises), "read_fail" (open/read       *)
(*   raises).  The renderer runs the synthesizer as a child process and does  *)
(* not look at its exit status; without the sound bank the output file is     *)
(* either left as created (empty) or holds a rendering without samples        *)
(* (`quiet`).                                                                 *)

RenderOutcomes == {"ok", "render_fail", "read_fail"}
QuietOutcomes == {"empty", "silent"}

Rendered(midi, sf, quiet) ==
    IF sf THEN Wav(midi)
    ELSE IF quiet = "empty" THEN EmptyBytes ELSE SilentWav(midi)

RenderStage(midi, out, sf, quiet) ==
    [exc     |-> CASE out = "render_fail" -> [type |-> "OSError", path |-> "fluidsynth"]
                   [] out = "read_fail"   -> [type |-> "OSError", path |-> "temp_wav"]
                   [] OTHER -> NoExc,
     result  |-> IF out = "ok" THEN Rendered(midi, sf, quiet) ELSE NoBytes,
     \* the two os.remove calls are the last statements before return
     leakMid |-> IF out = "ok" THEN 0 ELSE 1,
     leakWav |-> IF out = "ok" THEN 0 ELSE 1,
     wrote   |-> {"temp_mid", "temp_wav"}]

-----------------------------------------------------------------------------
(* so_vits_svc_infer.  The external process is a black box: `run` is how      *)
(* subprocess.run ends ("spawn_fail": it raises without a process having run, *)
(* "zero", "nonzero": the exit status), `effect` is what the process did to   *)
(* the results directory ("none", "out": it wrote the expected output from    *)
(* raw/temp_infer.wav, "other": it wrote a file of another name).             *)

RunOutcomes == {"spawn_fail", "zero", "nonzero"}
Effects == {"none", "out", "other"}
StderrTexts == {<<"C", "U", "D", "A">>}

\* the file system after the process: raw input written, then the effect
AfterProcess(rough, effect, fs) ==
    LET fed == [fs EXCEPT !["raw_infer"] = rough]
    IN  CASE effect = "out"   -> [fed EXCEPT !["out_file"] = Flac(fed["raw_infer"])]
          [] effect = "other" -> [fed EXCEPT !["other"] = OtherFile]
          [] OTHER -> fed

\* a mutant: the failure is reported but not raised again
SubprocessHandlingSwallow(run, stderr) ==
    CASE run = "nonzero" ->
           [errors |-> <<<<"svc_failed">>, stderr>>, exc |-> NoExc]
      [] run = "spawn_fail" ->
           [errors |-> <<>>, exc |-> [type |-> "FileNotFoundError", path |-> "python"]]
      [] OTHER -> [errors |-> <<>>, exc |-> NoExc]

\* try: subprocess.run(..., check=True) / except CalledProcessError: report, raise
SubprocessHandling(run, stderr) ==
    CASE run = "nonzero" ->
           [errors |-> <<<<"svc_failed">>, stderr>>,
            exc    |-> [type |-> "CalledProcessError", stderr |-> stderr]]
      [] run = "spawn_fail" ->
           [errors |-> <<>>, exc |-> [type |-> "FileNotFoundError", path |-> "python"]]
      [] OTHER -> [errors |-> <<>>, exc |-> NoExc]

\* out_file lookup: os.path.exists, os.listdir, raise FileNotFoundError, read
OutputLookup(fs, rdir) ==
    IF fs["out_file"] # NoBytes
    THEN [exc |-> NoExc, result |-> fs["out_file"]]
    ELSE IF rdir
    THEN [exc |-> [type |-> "FileNotFoundError", path |-> "out_file",
                   listing |-> Listing(fs)],
          result |-> NoBytes]
    ELSE \* os.listdir of a directory that does not exist
         [exc |-> [type |-> "FileNotFoundError", path |-> "results"],
          result |-> NoBytes]

SvcStage(rough, run, effect, stderr, fs, rdir) ==
    LET eff   == IF run = "spawn_fail" THEN "none" ELSE effect
        fs2   == AfterProcess(rough, eff, fs)
        rdir2 == rdir \/ eff # "none"
        h     == SubprocessHandling(run, stderr)
        look  == OutputLookup(fs2, rdir2)
        stop  == h.exc # NoExc
    IN  [errors     |-> h.errors,
         exc        |-> IF stop THEN h.exc ELSE look.exc,
         result     |-> IF stop THEN NoBytes ELSE look.result,
         files      |-> fs2,
         resultsDir |-> rdir2,
         procRuns   |-> 1,
         exit       |-> run,
         procWrote  |-> eff = "out",
         outExisted |-> fs2["out_file"] # NoBytes,
         wrote      |-> {"raw_infer", "debug_rough"} \cup
                        (IF eff = "out" THEN {"out_file"} ELSE {}) \cup
                        (IF eff = "other" THEN {"other"} ELSE {})]

-----------------------------------------------------------------------------
(* What one script run did and showed *)

Quiet(b) ==
    [button |-> b, errors |-> <<>>, exc |-> NoExc, stages |-> {},
     procRuns |-> 0, exit |-> "not_run", procWrote |-> FALSE,
     outExisted |-> FALSE, rough |-> NoBytes, returned |-> NoBytes,
     audio |-> NoBytes, download |-> NoBytes, wrote |-> {}]

\* a mutant: only None is taken as missing
LyricsMissingNoneOnly(lyr) == lyr = None

\* `not st.session_state["lyrics"]`
LyricsMissing(lyr) == lyr = None \/ lyr = <<>>

-----------------------------------------------------------------------------
(* The model calls of the generate handler *)

Failed == <<"Failed">>     \* the model call raises

TitleStreams == { <<QUOTE, "o", "h", QUOTE>>, <<"l", "a", NL>> }
LyricStreams == { <<>>,
                  <<QUOTE, "l", "a", " ", "-", NL, " ", NL, "o", "h", "-", QUOTE>>,
                  <<" ", "l", "a", "l", "a", "l", "a", "l", "a", NL>> }

\* "".join(parsed).strip() then .strip('"')
Unquoted(stream) == StripChars(Strip(stream), {QUOTE})

\* a mutant: the title is stored as soon as its call returns
StoredSessionEarly(cur, t, l) ==
    IF t = Failed THEN cur
    ELSE IF l = Failed THEN <<Unquoted(t), cur[2]>>
    ELSE <<Unquoted(t), format_text(Unquoted(l))>>

\* the generate handler's two model calls, then its two assignments
StoredSession(cur, t, l) ==
    IF t = Failed \/ l = Failed THEN cur
    ELSE <<Unquoted(t), format_text(Unquoted(l))>>

-----------------------------------------------------------------------------
(* generate_matched_melody(lyrics, debug_save=True) followed by midi_to_wav:  *)
(* the part the two render handlers share.  `o` is how the two calls go.      *)

RoughOutcomes(sf) ==
    [mo : MelodyOutcomes \ {"ok"}, ro : {"ok"}, quiet : {"empty"}]
      \cup [mo : {"ok"}, ro : RenderOutcomes \ {"ok"}, quiet : {"empty"}]
      \cup [mo : {"ok"}, ro : {"ok"},
            quiet : IF sf THEN {"empty"} ELSE QuietOutcomes]

RoughRun(ns, o, sf) ==
    LET m == MelodyStage(ns, TRUE, o.mo)
        r == RenderStage(m.result, o.ro, sf, o.quiet)
    IN  IF m.exc # NoExc
        THEN [exc |-> m.exc, rough |-> NoBytes, leakMid |-> m.leakMid,
              leakWav |-> 0, stages |-> {"melody"}, wrote |-> m.wrote]
        ELSE [exc |-> r.exc, rough |-> r.result, leakMid |-> r.leakMid,
              leakWav |-> r.leakWav, stages |-> {"melody", "render"},
              wrote |-> m.wrote \cup r.wrote]

\* ScoreNotes tabulated over the texts the session can hold
SessionTexts == { format_text(Unquoted(l)) : l \in LyricStreams }
SessionScore == [t \in SessionTexts |-> ScoreNotes(t)]

\* how the external process can go
ProcOutcomes ==
    [run : {"spawn_fail"}, effect : {"none"}, stderr : {<<>>}]
      \cup [run : {"zero", "nonzero"}, effect : Effects, stderr : StderrTexts]

-----------------------------------------------------------------------------
(* Initial state: the script has run once, no button pressed *)

NoFiles == [p \in FixedPaths |-> NoBytes]

Init ==
    /\ song_title = None
    /\ lyrics = None
    /\ image_data = None
    /\ soundfont \in BOOLEAN
    /\ tempMid = 0
    /\ tempWav = 0
    /\ files = NoFiles
    /\ resultsDir \in BOOLEAN
    /\ event = Quiet("none")
    /\ gen = <<None, None>>
    /\ src = <<>>
    /\ notes = <<>>
    /\ pc = "ready"

-----------------------------------------------------------------------------
(* The user draws on the canvas: the script reruns with image data *)

Draw ==
    /\ image_data' = <<"image">>
    /\ event' = Quiet("none")
    /\ UNCHANGED <<song_title, lyrics, soundfont, tempMid, tempWav, files,
                   resultsDir, gen, src, notes, pc>>

(* Button "generate lyrics" *)
GenerateLyricsButton ==
    /\ IF image_data = None
       THEN /\ event' = [Quiet("generate") EXCEPT !.errors = << <<"draw_first">> >>]
            /\ UNCHANGED <<song_title, lyrics, gen>>
       ELSE \E t \in TitleStreams \cup {Failed}, l \in LyricStreams \cup {Failed} :
              LET stored == StoredSession(<<song_title, lyrics>>, t, l)
                  failed == t = Failed \/ l = Failed
              IN  /\ song_title' = stored[1]
                  /\ lyrics' = stored[2]
                  /\ gen' = IF failed THEN gen ELSE <<t, l>>
                  /\ event' = [Quiet("generate") EXCEPT
                        !.exc = IF failed THEN [type |-> "ModelCallError"] ELSE NoExc,
                        !.stages = IF t = Failed THEN {"title_model"}
                                   ELSE {"title_model", "lyrics_model"}]
    /\ UNCHANGED <<image_data, soundfont, tempMid, tempWav, files, resultsDir,
                   src, notes, pc>>

(* Button "generate basic singing" *)
BasicRenderButton ==
    /\ tempMid < MaxTemp
    /\ tempWav < MaxTemp
    /\ IF LyricsMissing(lyrics)
       THEN /\ event' = [Quiet("basic") EXCEPT !.errors = << <<"lyrics_first">> >>]
            /\ UNCHANGED <<tempMid, tempWav, notes>>
       ELSE LET ns == SessionScore[lyrics]
            IN  \E o \in RoughOutcomes(soundfont) :
                  LET r == RoughRun(ns, o, soundfont)
                  IN  /\ tempMid' = tempMid + r.leakMid
                      /\ tempWav' = tempWav + r.leakWav
                      /\ notes' = ns
                      /\ event' = [Quiet("basic") EXCEPT
                            !.exc = r.exc, !.stages = r.stages,
                            !.wrote = r.wrote, !.rough = r.rough,
                            \* st.audio and st.download_button get the waveform
                            !.audio = r.rough, !.download = r.rough]
    /\ UNCHANGED <<song_title, lyrics, image_data, soundfont, files,
                   resultsDir, gen, src, pc>>

(* Button "generate So-VITS-SVC singing" *)
SvcButton ==
    /\ tempMid < MaxTemp
    /\ tempWav < MaxTemp
    /\ IF LyricsMissing(lyrics)
       THEN /\ event' = [Quiet("svc") EXCEPT !.errors = << <<"lyrics_first">> >>]
            /\ UNCHANGED <<tempMid, tempWav, files, resultsDir, notes>>
       ELSE LET ns == SessionScore[lyrics]
            IN  \E o \in RoughOutcomes(soundfont) :
                  LET r == RoughRun(ns, o, soundfont)
                  IN  /\ tempMid' = tempMid + r.leakMid
                      /\ tempWav' = tempWav + r.leakWav
                      /\ notes' = ns
                      /\ IF r.exc # NoExc
                         THEN /\ UNCHANGED <<files, resultsDir>>
                              /\ event' = [Quiet("svc") EXCEPT
                                    !.exc = r.exc, !.stages = r.stages,
                                    !.wrote = r.wrote]
                         ELSE \E p \in ProcOutcomes :
                                LET v == SvcStage(r.rough, p.run, p.effect,
                                                  p.stderr, files, resultsDir)
                                IN  /\ files' = v.files
                                    /\ resultsDir' = v.resultsDir
                                    /\ event' = [Quiet("svc") EXCEPT
                                          !.errors = v.errors, !.exc = v.exc,
                                          !.stages = r.stages \cup {"svc"},
                                          !.procRuns = v.procRuns,
                                          !.exit = v.exit,
                                          !.procWrote = v.procWrote,
                                          !.outExisted = v.outExisted,
                                          !.rough = r.rough,
                                          !.returned = v.result,
                                          !.audio = v.result,
                                          !.download = v.result,
                                          !.wrote = r.wrote \cup v.wrote]
    /\ UNCHANGED <<song_title, lyrics, image_data, soundfont, gen, src, pc>>

Next == Draw \/ GenerateLyricsButton \/ BasicRenderButton \/ SvcButton

Spec == Init /\ [][Next]_vars

-----------------------------------------------------------------------------
(* Melody runs: generate_melody_from_lyrics called on a lyric text assembled  *)
(* from words, line breaks and paddings                                       *)

MelodyWords == { <<"l", "a">>,
                 <<"l", "a", "l", "a", "l", "a", "l", "a">>,
                 <<HYPHEN>> }
NLToken == <<NL>>
PadToken == <<TAB>>
Tokens == MelodyWords \cup {NLToken, PadToken}

TextInputs == UNION { [1..n -> Tokens] : n \in 0..MaxTokens }

\* the text of a token sequence: the tokens in order, one space between two
\* words that follow each other
RECURSIVE TextFrom(_, _)
TextFrom(toks, k) ==
    IF k > Len(toks) THEN <<>>
    ELSE toks[k]
           \o (IF k < Len(toks) /\ toks[k] \in MelodyWords /\ toks[k + 1] \in MelodyWords
               THEN <<" ">> ELSE <<>>)
           \o TextFrom(toks, k + 1)

TextOf(toks) == TextFrom(toks, 1)

InitMelody ==
    /\ src \in TextInputs
    /\ lyrics = TextOf(src)
    /\ song_title = None
    /\ image_data = None
    /\ soundfont = TRUE
    /\ tempMid = 0
    /\ tempWav = 0
    /\ files = NoFiles
    /\ resultsDir = FALSE
    /\ event = Quiet("none")
    /\ gen = <<None, None>>
    /\ notes = <<>>
    /\ pc = "ready"

MelodyCall ==
    /\ pc = "ready"
    /\ LET ns == ScoreNotes(lyrics)
       IN  \E debug_save \in BOOLEAN, mo \in MelodyOutcomes :
             LET m == MelodyStage(ns, debug_save, mo)
             IN  /\ notes' = ns
                 /\ tempMid' = tempMid + m.leakMid
                 /\ event' = [Quiet("melody") EXCEPT
                       !.exc = m.exc, !.stages = {"melody"},
                       !.returned = m.result, !.wrote = m.wrote]
    /\ pc' = "done"
    /\ UNCHANGED <<song_title, lyrics, image_data, soundfont, tempWav, files,
                   resultsDir, gen, src>>

NextMelody == MelodyCall

SpecMelody == InitMelody /\ [][NextMelody]_vars

-----------------------------------------------------------------------------
(* The lines and words of a melody run's input, read off its tokens *)

\* the token sequences of the lines: a line break token ends a line
RECURSIVE SrcLinesFrom(_, _, _)
SrcLinesFrom(toks, k, cur) ==
    IF k > Len(toks) THEN <<cur>>
    ELSE IF toks[k] = NLToken THEN <<cur>> \o SrcLinesFrom(toks, k + 1, <<>>)
    ELSE SrcLinesFrom(toks, k + 1, Append(cur, toks[k]))

SrcLines == SrcLinesFrom(src, 1, <<>>)

\* the words of a line's tokens, in order
RECURSIVE LineWords(_)
LineWords(toks) ==
    IF toks = <<>> THEN <<>>
    ELSE (IF toks[1] \in MelodyWords THEN <<toks[1]>> ELSE <<>>)
           \o LineWords(Tail(toks))

\* a line is blank when it holds no word
IsBlankLine(toks) == \A k \in 1..Len(toks) : toks[k] \notin MelodyWords

\* the number of syllable units of the non-blank lines before line k
RECURSIVE UnitsBefore(_)
UnitsBefore(k) ==
    IF k <= 1 THEN 0
    ELSE UnitsBefore(k - 1)
           + (IF IsBlankLine(SrcLines[k - 1]) THEN 0
              ELSE Len(split_into_syllables(TextOf(SrcLines[k - 1]))))

LineUnits(k) ==
    IF IsBlankLine(SrcLines[k]) THEN 0
    ELSE Len(split_into_syllables(TextOf(SrcLines[k])))

-----------------------------------------------------------------------------
(* C1: when a call of generate_melody_from_lyrics or midi_to_wav has exited,  *)
(* normally or with an exception, no temporary file it created is left: after *)
(* any sequence of script runs the set of leftover temp files is empty.       *)
C1_NoTempFileLeft == tempMid = 0 /\ tempWav = 0

(* C2: when no sound bank is at SOUNDFONT_PATH, a script run that reaches the *)
(* renderer fails there: midi_to_wav returns no waveform bytes, and no audio  *)
(* is played or offered for download.                                         *)
C2_MissingSoundfontFails ==
    (~soundfont /\ "render" \in event.stages)
      => /\ event.exc # NoExc
         /\ event.rough = NoBytes
         /\ event.audio = NoBytes
         /\ event.download = NoBytes

(* C3: when the external process exits non-zero, its stderr text is reported, *)
(* the CalledProcessError carrying that text propagates, the process was run  *)
(* exactly once in that script run, and no converted waveform is returned,    *)
(* played or offered for download.                                            *)
C3_NonZeroExitFails ==
    event.exit = "nonzero"
      => /\ Len(event.errors) = 2
         /\ event.errors[2] \in StderrTexts
         /\ event.exc = [type |-> "CalledProcessError", stderr |-> event.errors[2]]
         /\ event.procRuns = 1
         /\ event.returned = NoBytes
         /\ event.audio = NoBytes
         /\ event.download = NoBytes

\* a failed conversion while an output file lies in the results directory
C3_Witness ==
    /\ event.button = "svc"
    /\ event.exit = "nonzero"
    /\ files["out_file"] # NoBytes

(* C4: when the external process exits zero and the expected output file is   *)
(* absent, so_vits_svc_infer raises the output-missing FileNotFoundError whose *)
(* message holds the listing of the results directory, and returns nothing.    *)
C4_OutputMissingListsResults ==
    (event.exit = "zero" /\ ~event.outExisted)
      => /\ event.exc = [type |-> "FileNotFoundError", path |-> "out_file",
                         listing |-> Listing(files)]
         /\ event.returned = NoBytes

(* C5: the notes built by generate_melody_from_lyrics are the concatenation,   *)
(* in line order, of generate_melody_for_line over exactly the non-blank       *)
(* lines; each note carries its unit as lyric, the number of notes is the      *)
(* total number of units of the non-blank lines, blank lines add no note, and  *)
(* a text without non-blank line gives no note.                                *)
C5_NotesFollowLines ==
    pc = "done"
      => LET ls == SrcLines
             perLine == [k \in 1..Len(ls) |->
                           IF IsBlankLine(ls[k]) THEN <<>>
                           ELSE generate_melody_for_line(TextOf(ls[k]))]
             units == [k \in 1..Len(ls) |->
                           IF IsBlankLine(ls[k]) THEN <<>>
                           ELSE split_into_syllables(TextOf(ls[k]))]
         IN  /\ notes = Flatten(perLine)
             /\ [i \in 1..Len(notes) |-> notes[i][3]] = Flatten(units)
             /\ Len(notes) = UnitsBefore(Len(ls) + 1)
             /\ (\A k \in 1..Len(ls) : IsBlankLine(ls[k])) => notes = <<>>

\* a blank line between two lines that have notes
C5_Witness ==
    /\ pc = "done"
    /\ \E j, k, l \in 1..Len(SrcLines) :
         /\ j < k /\ k < l
         /\ ~IsBlankLine(SrcLines[j])
         /\ IsBlankLine(SrcLines[k]) /\ SrcLines[k] # <<>>
         /\ ~IsBlankLine(SrcLines[l])
    /\ Len(notes) >= 2

(* C6: the unit at 0-based position i of a line gets pitch scale[i mod 7] of   *)
(* C4 D4 E4 F4 G4 A4 B4 and duration 1.0; positions i and i+7 of a line have   *)
(* the same pitch, every pitch is within C4..B4 and the first note of every    *)
(* line is C4 whatever the length of the lines before it.                      *)
C6_PitchCycles ==
    pc = "done"
      => \A k \in 1..Len(SrcLines) : \A i \in 0..(LineUnits(k) - 1) :
           LET n == notes[UnitsBefore(k) + i + 1]
           IN  /\ n[1] = <<"C4", "D4", "E4", "F4", "G4", "A4", "B4">>[(i % 7) + 1]
               /\ n[2] = 1
               /\ n[1] \in {"C4", "D4", "E4", "F4", "G4", "A4", "B4"}
               /\ (i = 0 => n[1] = "C4")
               /\ (i + 7 < LineUnits(k)
                     => notes[UnitsBefore(k) + i + 8][1] = n[1])

\* a line of at least eight units, and a later line that starts after a
\* number of notes that is no multiple of seven
C6_Witness ==
    /\ pc = "done"
    /\ \E k, l \in 1..Len(SrcLines) :
         /\ k < l
         /\ LineUnits(k) >= 8
         /\ LineUnits(l) >= 1
         /\ UnitsBefore(l) % 7 # 0

\* u occurs in w as a run of consecutive characters
IsSubstring(u, w) ==
    \E a \in 1..(Len(w) + 1) :
       a + Len(u) - 1 <= Len(w) /\ SubSeq(w, a, a + Len(u) - 1) = u

(* C7: the units of every word are substrings of the word in their order, a    *)
(* word in which the dictionary finds no boundary gives exactly one unit, the  *)
(* word itself, also when it contains "-"; the units of a line are those of    *)
(* its words in order, and a whitespace-only line gives no unit.               *)
C7_UnitsOfWords ==
    pc = "done"
      => \A k \in 1..Len(SrcLines) :
           LET line == TextOf(SrcLines[k])
               words == LineWords(SrcLines[k])
           IN  /\ split_into_syllables(line)
                    = Flatten([j \in 1..Len(words) |-> WordUnits(words[j])])
               /\ \A j \in 1..Len(words) :
                    /\ \A m \in 1..Len(WordUnits(words[j])) :
                         IsSubstring(WordUnits(words[j])[m], words[j])
                    /\ Positions(words[j]) = {}
                         => WordUnits(words[j]) = <<words[j]>>

(* C8: the session's title and lyrics are exactly the values of the most       *)
(* recent generation that completed, both from the same generation, and a      *)
(* generation that fails in a model call leaves both as they were.             *)
C8_LastGenerationStored ==
    /\ [](<<song_title, lyrics>> =
            IF gen = <<None, None>> THEN <<None, None>>
            ELSE <<Unquoted(gen[1]), format_text(Unquoted(gen[2]))>>)
    /\ [][(event'.button = "generate" /\ event'.exc # NoExc)
            => UNCHANGED <<song_title, lyrics>>]_vars

\* a failed generation after one that completed
C8_Witness ==
    /\ event.button = "generate"
    /\ event.exc # NoExc
    /\ "lyrics_model" \in event.stages
    /\ gen # <<None, None>>
    /\ song_title = Unquoted(gen[1])

(* C9: a render run while the session lyrics are None or empty, and a generate *)
(* run while the canvas has no image data, show an error, start no stage, run  *)
(* no process, write no file and leave the session as it was.                  *)
C9_InputMissingStopsRun ==
    [][ ( \/ /\ event'.button \in {"basic", "svc"}
             /\ (lyrics = None \/ lyrics = <<>>)
          \/ /\ event'.button = "generate"
             /\ image_data = None )
        => /\ event'.errors # <<>>
           /\ event'.stages = {}
           /\ event'.procRuns = 0
           /\ event'.wrote = {}
           /\ event'.audio = NoBytes
           /\ UNCHANGED <<song_title, lyrics, gen, files, resultsDir,
                          tempMid, tempWav>> ]_vars

\* a render run refused on an empty lyric text that a generation stored
C9_Witness ==
    /\ event.button \in {"basic", "svc"}
    /\ event.errors = << <<"lyrics_first">> >>
    /\ lyrics = <<>>
    /\ song_title # None

(* C10: the bytes a successful so_vits_svc_infer call returns were written by  *)
(* the external process during that call from that call's input waveform; an  *)
(* output file left by an earlier call is never returned.                      *)
C10_ReturnedOutputIsFresh ==
    (event.button = "svc" /\ event.returned # NoBytes)
      => /\ event.procWrote
         /\ event.returned = Flac(event.rough)

====
